---- MODULE Spec2Model ----
(***************************************************************************)
(* libmcp shims: fixed-arity C wrappers around the variadic POSIX calls    *)
(* open, fcntl and ioctl (Sources/libmcp/shims.c, include/shims.h).        *)
(*                                                                         *)
(* A shim call is modelled in steps of the calling thread:                 *)
(*   Call_<shim>  the caller enters the shim with its arguments            *)
(*   Native_<fn>  the shim's body executes its one native call, which acts *)
(*                atomically on the operating system state, and returns    *)
(*                the call's value to the caller                           *)
(*   Consume      the caller takes the result and is ready to call again   *)
(* The operating system (descriptor table, files, record locks, the        *)
(* thread's errno and the caller's buffer) is the environment the native   *)
(* calls act on.  A variadic call that omits an argument the command reads *)
(* makes the callee read an unspecified word: that word is a               *)
(* nondeterministic choice (GarbageWords).                                 *)
(***************************************************************************)
EXTENDS Integers, Sequences, FiniteSets, TLC

(* ------------------------------ bounds -------------------------------- *)
\* size of the process's descriptor table (RLIMIT_NOFILE of the model)
MaxFd == 2

(* -------------------- constants of the system headers ----------------- *)
O_RDONLY == 0
O_WRONLY == 1
O_ACCMODE == 3
O_CREAT == 64
S_IRUSR == 256
S_IWUSR == 128
S_IALLUGO == 4095
F_DUPFD == 0
F_GETFD == 1
F_SETFD == 2
F_GETFL == 3
F_GETLK == 5
F_SETLK == 6
FD_CLOEXEC == 1
F_RDLCK == 0
F_WRLCK == 1
F_UNLCK == 2
FIONCLEX == 21584
FIOCLEX == 21585
FIONREAD == 21531
ENOENT == 2
EINTR == 4
EBADF == 9
EACCES == 13
EFAULT == 14
EINVAL == 22
EMFILE == 24
ENOTTY == 25

(* ------------------------------ domains ------------------------------- *)
Threads == {1, 2}
MainThread == 1
Paths == {"a", "b"}
NoFile == -1
Fds == 0 .. (MaxFd - 1)

\* a machine word of a variadic argument slot: the int the callee reads is
\* the low half, the high half is what a long or a pointer carries above it
W(x) == [hi |-> 0, lo |-> x]
NULL == 0
HasBit(x, bit) == (x \div bit) % 2 = 1
BufAddr(t) == 4096 * t

VARIABLES files, fdt, plock, pc, frame, errno, buf
vars == <<files, fdt, plock, pc, frame, errno, buf>>
osvars == <<files, fdt, plock>>

ClosedFd == [used |-> FALSE, path |-> "", acc |-> 0, cloexec |-> FALSE]
NoFrame == [shim |-> "none", args |-> <<>>, nret |-> 0, nerrno |-> 0, ret |-> 0]

(* ------------- the shims: the native call each one issues ------------- *)
\* A native call: the function, its two fixed arguments and the words it
\* is given in the variadic part (none or one).
\* (mutant) the flags are altered on the way: O_CREAT is added
open_int_creat(path, oflag) ==
  [fn |-> "open", a1 |-> path,
   a2 |-> IF HasBit(oflag, O_CREAT) THEN oflag ELSE oflag + O_CREAT, va |-> <<>>]

open_int(path, oflag) ==
  [fn |-> "open", a1 |-> path, a2 |-> oflag, va |-> <<>>]

\* (mutant) the mode is dropped: the two-argument form is called
open_int_mode_dropped(path, oflag, mode) ==
  [fn |-> "open", a1 |-> path, a2 |-> oflag, va |-> <<>>]

\* mode_t undergoes the default argument promotion: its value is unchanged
open_int_mode(path, oflag, mode) ==
  [fn |-> "open", a1 |-> path, a2 |-> oflag, va |-> <<W(mode)>>]

\* (mutant) the command is interpreted: F_GETFD is turned into F_GETFL
fcntl_int_interpreting(fildes, cmd) ==
  [fn |-> "fcntl", a1 |-> fildes, a2 |-> IF cmd = F_GETFD THEN F_GETFL ELSE cmd, va |-> <<>>]

fcntl_int(fildes, cmd) ==
  [fn |-> "fcntl", a1 |-> fildes, a2 |-> cmd, va |-> <<>>]

\* (mutant) the native call is given a copy of the record that is not
\* written back: here the other thread's buffer
fcntl_int_flock_copy(fildes, cmd, flock) ==
  [fn |-> "fcntl", a1 |-> fildes, a2 |-> cmd,
   va |-> <<W(IF flock = NULL THEN NULL ELSE BufAddr(1) + BufAddr(2) - flock)>>]

\* flock is the address of the caller's lock record
fcntl_int_flock(fildes, cmd, flock) ==
  [fn |-> "fcntl", a1 |-> fildes, a2 |-> cmd, va |-> <<W(flock)>>]

\* (mutant) arg is declared int: truncated, then sign-extended
fcntl_int_long_truncating(fildes, cmd, arg) ==
  [fn |-> "fcntl", a1 |-> fildes, a2 |-> cmd,
   va |-> <<[hi |-> IF arg.lo < 0 THEN -1 ELSE 0, lo |-> arg.lo]>>]

\* arg is a long: a full word [hi, lo]
fcntl_int_long(fildes, cmd, arg) ==
  [fn |-> "fcntl", a1 |-> fildes, a2 |-> cmd, va |-> <<arg>>]

ioctl_long(fd, request) ==
  [fn |-> "ioctl", a1 |-> fd, a2 |-> request, va |-> <<>>]

\* (mutant) the data pointer is not forwarded
ioctl_long_void_nodata(fd, request, data) ==
  [fn |-> "ioctl", a1 |-> fd, a2 |-> request, va |-> <<W(0)>>]

ioctl_long_void(fd, request, data) ==
  [fn |-> "ioctl", a1 |-> fd, a2 |-> request, va |-> <<W(data)>>]

\* (mutant) one declaration is missing
DeclaredSix ==
  {"open_int", "open_int_mode", "fcntl_int", "fcntl_int_flock",
   "fcntl_int_long", "ioctl_long"}

\* the functions shims.h declares
Declared ==
  {"open_int", "open_int_mode", "fcntl_int", "fcntl_int_flock",
   "fcntl_int_long", "ioctl_long", "ioctl_long_void"}

\* the native call the body of the shim in frame f issues
IssuedCall(f) ==
  CASE f.shim = "open_int" -> open_int(f.args[1], f.args[2])
    [] f.shim = "open_int_mode" -> open_int_mode(f.args[1], f.args[2], f.args[3])
    [] f.shim = "fcntl_int" -> fcntl_int(f.args[1], f.args[2])
    [] f.shim = "fcntl_int_flock" -> fcntl_int_flock(f.args[1], f.args[2], f.args[3])
    [] f.shim = "fcntl_int_long" -> fcntl_int_long(f.args[1], f.args[2], f.args[3])
    [] f.shim = "ioctl_long" -> ioctl_long(f.args[1], f.args[2])
    [] f.shim = "ioctl_long_void" -> ioctl_long_void(f.args[1], f.args[2], f.args[3])

\* (mutant) a failure is swallowed
shim_return_swallow(nret) == IF nret = -1 THEN 0 ELSE nret

\* the value a shim returns: the value of its return expression, the
\* native call's int
shim_return(nret) == nret

(* ------------------- the native calls (environment) ------------------- *)
\* The result of a native call: its return value, the errno it sets (0: it
\* leaves errno alone) and the operating system state it leaves.
Fail(e) ==
  [ret |-> -1, err |-> e, files |-> files, fdt |-> fdt, plock |-> plock, buf |-> buf]
Ok(r) ==
  [ret |-> r, err |-> 0, files |-> files, fdt |-> fdt, plock |-> plock, buf |-> buf]

IsOpen(fd) == fd \in Fds /\ fdt[fd].used
FreeFrom(from) == {i \in Fds : i >= from /\ ~fdt[i].used}
LowestFree(from) == CHOOSE i \in FreeFrom(from) : \A j \in FreeFrom(from) : i <= j
\* what the callee reads from a word as an int, and as a pointer
AsInt(w) == w.lo
PtrValid(w) == w.hi = 0 /\ \E u \in Threads : w.lo = BufAddr(u)
PtrOwner(w) == CHOOSE u \in Threads : w.lo = BufAddr(u)
FileSize(path) == IF path = "a" THEN 5 ELSE 0
MayAccess(mode, acc) ==
  /\ (acc \in {0, 2} => HasBit(mode, S_IRUSR))
  /\ (acc \in {1, 2} => HasBit(mode, S_IWUSR))

\* open(path, oflag, ...): w is the word in the variadic slot
sys_open(path, oflag, w) ==
  LET acc == oflag % (O_ACCMODE + 1)
      creat == HasBit(oflag, O_CREAT)
      newfd(fd) == [used |-> TRUE, path |-> path, acc |-> acc, cloexec |-> FALSE]
  IN  IF FreeFrom(0) = {} THEN Fail(EMFILE)
      ELSE IF path \notin Paths THEN Fail(ENOENT)
      ELSE IF files[path] = NoFile
        THEN IF ~creat THEN Fail(ENOENT)
             ELSE [Ok(LowestFree(0)) EXCEPT
                     !.files = [files EXCEPT ![path] = AsInt(w) % (S_IALLUGO + 1)],
                     !.fdt = [fdt EXCEPT ![LowestFree(0)] = newfd(LowestFree(0))]]
      ELSE IF ~MayAccess(files[path], acc) THEN Fail(EACCES)
      ELSE [Ok(LowestFree(0)) EXCEPT
              !.fdt = [fdt EXCEPT ![LowestFree(0)] = newfd(LowestFree(0))]]

\* fcntl(fd, cmd, ...)
sys_fcntl(fd, cmd, w) ==
  IF ~IsOpen(fd) THEN Fail(EBADF)
  ELSE CASE cmd = F_DUPFD ->
              IF AsInt(w) < 0 \/ AsInt(w) >= MaxFd THEN Fail(EINVAL)
              ELSE IF FreeFrom(AsInt(w)) = {} THEN Fail(EMFILE)
              ELSE [Ok(LowestFree(AsInt(w))) EXCEPT
                      !.fdt = [fdt EXCEPT ![LowestFree(AsInt(w))] =
                                            [fdt[fd] EXCEPT !.cloexec = FALSE]]]
         [] cmd = F_GETFD -> Ok(IF fdt[fd].cloexec THEN FD_CLOEXEC ELSE 0)
         [] cmd = F_SETFD ->
              [Ok(0) EXCEPT !.fdt = [fdt EXCEPT ![fd].cloexec = HasBit(AsInt(w), FD_CLOEXEC)]]
         [] cmd = F_GETFL -> Ok(fdt[fd].acc)
         [] cmd = F_GETLK ->
              IF ~PtrValid(w) THEN Fail(EFAULT)
              ELSE IF buf[PtrOwner(w)] \notin {F_RDLCK, F_WRLCK} THEN Fail(EINVAL)
              ELSE [Ok(0) EXCEPT !.buf = [buf EXCEPT ![PtrOwner(w)] = F_UNLCK]]
         [] cmd = F_SETLK ->
              IF ~PtrValid(w) THEN Fail(EFAULT)
              ELSE IF buf[PtrOwner(w)] \notin {F_RDLCK, F_WRLCK, F_UNLCK} THEN Fail(EINVAL)
              ELSE IF buf[PtrOwner(w)] = F_RDLCK /\ fdt[fd].acc \notin {0, 2} THEN Fail(EBADF)
              ELSE IF buf[PtrOwner(w)] = F_WRLCK /\ fdt[fd].acc \notin {1, 2} THEN Fail(EBADF)
              ELSE [Ok(0) EXCEPT
                      !.plock = [plock EXCEPT ![fdt[fd].path] = buf[PtrOwner(w)]]]
         [] OTHER -> Fail(EINVAL)

\* ioctl(fd, request, ...)
sys_ioctl(fd, request, w) ==
  IF ~IsOpen(fd) THEN Fail(EBADF)
  ELSE CASE request = FIOCLEX -> [Ok(0) EXCEPT !.fdt = [fdt EXCEPT ![fd].cloexec = TRUE]]
         [] request = FIONCLEX -> [Ok(0) EXCEPT !.fdt = [fdt EXCEPT ![fd].cloexec = FALSE]]
         [] request = FIONREAD ->
              IF ~PtrValid(w) THEN Fail(EFAULT)
              ELSE [Ok(0) EXCEPT
                      !.buf = [buf EXCEPT ![PtrOwner(w)] = FileSize(fdt[fd].path)]]
         [] OTHER -> Fail(ENOTTY)

\* the native call c acting on the current state with w in its variadic slot
sys_call(c, w) ==
  CASE c.fn = "open" -> sys_open(c.a1, c.a2, w)
    [] c.fn = "fcntl" -> sys_fcntl(c.a1, c.a2, w)
    [] c.fn = "ioctl" -> sys_ioctl(c.a1, c.a2, w)

\* whether the native call c reads its variadic slot
ReadsVa(c) ==
  CASE c.fn = "open" -> HasBit(c.a2, O_CREAT)
    [] c.fn = "fcntl" -> c.a2 \in {F_DUPFD, F_SETFD, F_GETLK, F_SETLK}
    [] c.fn = "ioctl" -> c.a2 = FIONREAD

\* the words an omitted variadic argument can be read as by thread t's call:
\* whatever the slot held (zero, a small number, the address of t's buffer)
GarbageWords(t) == {W(0), W(1), W(BufAddr(t))}
\* the words the callee can find in the variadic slot of call c
VaWords(c, t) == IF c.va = <<>> THEN GarbageWords(t) ELSE {c.va[1]}

(* ------------------------- the callers' inputs ------------------------ *)
OpenFlags == {O_RDONLY, O_WRONLY, O_CREAT + O_WRONLY}
Modes == {0, S_IRUSR + S_IWUSR}
FcntlIntCmds == {F_DUPFD, F_GETFD, F_SETFD, F_GETFL, F_GETLK}
FlockCmds == {F_GETLK, F_SETLK, F_SETFD}
LockTypes == {F_RDLCK, F_WRLCK, F_UNLCK}
LongCmds == {F_DUPFD, F_GETFD, F_SETFD}
\* longs: 0, 2^32 + 1 and -1
LongArgs == {W(0), [hi |-> 1, lo |-> 1], [hi |-> -1, lo |-> -1]}
IoctlReqs == {FIOCLEX, FIONCLEX, FIONREAD}
\* errno as earlier activity of the thread left it
StaleErrno == {EINTR}

(* ------------------------------- state -------------------------------- *)
Init ==
  /\ files = [p \in Paths |-> IF p = "a" THEN S_IRUSR + S_IWUSR ELSE NoFile]
  /\ fdt = [i \in Fds |-> ClosedFd]
  /\ plock = [p \in Paths |-> F_UNLCK]
  /\ pc = [t \in Threads |-> "idle"]
  /\ frame = [t \in Threads |-> NoFrame]
  /\ errno = [t \in Threads |-> 0]
  /\ buf = [t \in Threads |-> 0]

\* thread t calls shim with args; b is what its buffer holds at the call
Enter(t, shim, args, b) ==
  /\ pc[t] = "idle"
  /\ shim \in Declared
  /\ pc' = [pc EXCEPT ![t] = "entered"]
  /\ frame' = [frame EXCEPT ![t] = [NoFrame EXCEPT !.shim = shim, !.args = args]]
  /\ \E e0 \in StaleErrno : errno' = [errno EXCEPT ![t] = e0]
  /\ buf' = [buf EXCEPT ![t] = b]
  /\ UNCHANGED osvars

Call_open_int(t, path, oflag) ==
  Enter(t, "open_int", <<path, oflag>>, 0)

Call_open_int_mode(t, path, oflag, mode) ==
  Enter(t, "open_int_mode", <<path, oflag, mode>>, 0)

Call_fcntl_int(t, fildes, cmd) ==
  Enter(t, "fcntl_int", <<fildes, cmd>>, 0)

\* flock is NULL or the address of t's lock record, whose l_type is ltype
Call_fcntl_int_flock(t, fildes, cmd, flock, ltype) ==
  Enter(t, "fcntl_int_flock", <<fildes, cmd, flock>>, ltype)

Call_fcntl_int_long(t, fildes, cmd, arg) ==
  Enter(t, "fcntl_int_long", <<fildes, cmd, arg>>, 0)

Call_ioctl_long(t, fd, request) ==
  Enter(t, "ioctl_long", <<fd, request>>, 0)

\* data is NULL or the address of t's int buffer, which holds -1
Call_ioctl_long_void(t, fd, request, data) ==
  Enter(t, "ioctl_long_void", <<fd, request, data>>, -1)

\* (mutant) the shim closes descriptor 0 after its native call
CompleteClosing(t, o) ==
  /\ files' = o.files
  /\ fdt' = [o.fdt EXCEPT ![0] = ClosedFd]
  /\ plock' = o.plock
  /\ buf' = o.buf
  /\ errno' = IF o.err # 0 THEN [errno EXCEPT ![t] = o.err] ELSE errno
  /\ frame' = [frame EXCEPT ![t].nret = o.ret,
                            ![t].nerrno = IF o.err # 0 THEN o.err ELSE errno[t],
                            ![t].ret = shim_return(o.ret)]
  /\ pc' = [pc EXCEPT ![t] = "returned"]

\* (mutant) the shim keeps the error of its call in a variable all threads
\* share
CompleteShared(t, o) ==
  /\ files' = o.files
  /\ fdt' = o.fdt
  /\ plock' = o.plock
  /\ buf' = o.buf
  /\ errno' = IF o.err # 0 THEN [u \in Threads |-> o.err] ELSE errno
  /\ frame' = [frame EXCEPT ![t].nret = o.ret,
                            ![t].nerrno = IF o.err # 0 THEN o.err ELSE errno[t],
                            ![t].ret = shim_return(o.ret)]
  /\ pc' = [pc EXCEPT ![t] = "returned"]

\* the body of the shim, "return <native call>": the native call acts with
\* outcome o and the shim returns its value to the caller
Complete(t, o) ==
  /\ files' = o.files
  /\ fdt' = o.fdt
  /\ plock' = o.plock
  /\ buf' = o.buf
  /\ errno' = IF o.err # 0 THEN [errno EXCEPT ![t] = o.err] ELSE errno
  /\ frame' = [frame EXCEPT ![t].nret = o.ret,
                            ![t].nerrno = IF o.err # 0 THEN o.err ELSE errno[t],
                            ![t].ret = shim_return(o.ret)]
  /\ pc' = [pc EXCEPT ![t] = "returned"]

Native(t, fn) ==
  /\ pc[t] = "entered"
  /\ IssuedCall(frame[t]).fn = fn
  /\ \E w \in VaWords(IssuedCall(frame[t]), t) :
       Complete(t, sys_call(IssuedCall(frame[t]), w))

Native_open(t) == Native(t, "open")
Native_fcntl(t) == Native(t, "fcntl")
Native_ioctl(t) == Native(t, "ioctl")

\* the caller takes the result
Consume(t) ==
  /\ pc[t] = "returned"
  /\ pc' = [pc EXCEPT ![t] = "idle"]
  /\ frame' = [frame EXCEPT ![t] = NoFrame]
  /\ errno' = [errno EXCEPT ![t] = 0]
  /\ buf' = [buf EXCEPT ![t] = 0]
  /\ UNCHANGED osvars

(* One thread calls every shim with every input. *)
Next ==
  \/ \E p \in Paths, f \in OpenFlags : Call_open_int(MainThread, p, f)
  \/ \E p \in Paths, f \in OpenFlags, m \in Modes : Call_open_int_mode(MainThread, p, f, m)
  \/ \E fd \in Fds, c \in FcntlIntCmds : Call_fcntl_int(MainThread, fd, c)
  \/ \E fd \in Fds, c \in FlockCmds, l \in LockTypes :
       Call_fcntl_int_flock(MainThread, fd, c, BufAddr(MainThread), l)
  \/ \E fd \in Fds, c \in FlockCmds : Call_fcntl_int_flock(MainThread, fd, c, NULL, 0)
  \/ \E fd \in Fds, c \in LongCmds, a \in LongArgs : Call_fcntl_int_long(MainThread, fd, c, a)
  \/ \E fd \in Fds, r \in IoctlReqs : Call_ioctl_long(MainThread, fd, r)
  \/ \E fd \in Fds, r \in IoctlReqs, d \in {NULL, BufAddr(MainThread)} :
       Call_ioctl_long_void(MainThread, fd, r, d)
  \/ Native_open(MainThread)
  \/ Native_fcntl(MainThread)
  \/ Native_ioctl(MainThread)
  \/ Consume(MainThread)

Spec == Init /\ [][Next]_vars

(* ---------------------- vocabulary of the properties ------------------ *)
\* this step is thread t's shim body running
Step(t) == pc[t] = "entered" /\ pc'[t] = "returned"
\* this step of thread t is what outcome o prescribes
Matches(t, o) ==
  /\ frame'[t].ret = o.ret
  /\ errno'[t] = (IF o.err # 0 THEN o.err ELSE errno[t])
  /\ files' = o.files /\ fdt' = o.fdt /\ plock' = o.plock /\ buf' = o.buf
Shim(t, name) == Step(t) /\ frame[t].shim = name
Arg(t, i) == frame[t].args[i]
Returned(t, name) == pc[t] = "returned" /\ frame[t].shim = name

\* C1: open_int(path, flags) returns the integer the two-argument native
\* open returns for the same path and flags in the same state, whatever the
\* callee finds in the absent mode slot; the shim issues open(path, flags)
\* with no mode argument and its effect is that call's effect.
C1_OpenInt ==
  [][\A t \in Threads : Shim(t, "open_int") =>
       /\ IssuedCall(frame[t]) =
            [fn |-> "open", a1 |-> Arg(t, 1), a2 |-> Arg(t, 2), va |-> <<>>]
       /\ \A w \in GarbageWords(t) : frame'[t].ret = sys_open(Arg(t, 1), Arg(t, 2), w).ret
       /\ \E w \in GarbageWords(t) : Matches(t, sys_open(Arg(t, 1), Arg(t, 2), w))]_vars

\* open_int("b", O_CREAT | O_WRONLY) has created the file and returned a
\* descriptor
C1_Witness ==
  /\ Returned(MainThread, "open_int") /\ frame[MainThread].ret >= 0
  /\ frame[MainThread].args[2] = O_CREAT + O_WRONLY
  /\ files["b"] # NoFile

\* C2: open_int_mode(path, flags, mode) returns what the three-argument
\* native open returns for the same arguments in the same state and has that
\* call's effect; the mode is in the variadic slot unchanged, with or
\* without O_CREAT in the flags.
C2_OpenIntMode ==
  [][\A t \in Threads : Shim(t, "open_int_mode") =>
       /\ IssuedCall(frame[t]) =
            [fn |-> "open", a1 |-> Arg(t, 1), a2 |-> Arg(t, 2), va |-> <<W(Arg(t, 3))>>]
       /\ Matches(t, sys_open(Arg(t, 1), Arg(t, 2), W(Arg(t, 3))))]_vars

\* open_int_mode has created "b" with the mode it was given
C2_Witness ==
  /\ Returned(MainThread, "open_int_mode") /\ frame[MainThread].ret >= 0
  /\ HasBit(frame[MainThread].args[2], O_CREAT)
  /\ files["b"] = frame[MainThread].args[3]
  /\ frame[MainThread].args[3] # 0

C4_Original ==
  [][\A t \in Threads : Shim(t, "fcntl_int") =>
       \A w \in GarbageWords(t) : frame'[t].ret = sys_fcntl(Arg(t, 1), Arg(t, 2), w).ret]_vars

\* C4 (amended): fcntl_int issues fcntl(descriptor, command) with no third
\* argument and the command uninterpreted; for a command that reads no third
\* argument it returns exactly what that native call returns in the same
\* state; for a command that reads one, its result and effect are among those
\* the two-argument native call can produce.
C4_FcntlInt ==
  [][\A t \in Threads : Shim(t, "fcntl_int") =>
       /\ IssuedCall(frame[t]) =
            [fn |-> "fcntl", a1 |-> Arg(t, 1), a2 |-> Arg(t, 2), va |-> <<>>]
       /\ \E w \in GarbageWords(t) : Matches(t, sys_fcntl(Arg(t, 1), Arg(t, 2), w))
       /\ (~ReadsVa(fcntl_int(Arg(t, 1), Arg(t, 2))) =>
             \A w \in GarbageWords(t) : Matches(t, sys_fcntl(Arg(t, 1), Arg(t, 2), w)))]_vars

\* fcntl_int(fd, F_GETFD) has reported a descriptor's close-on-exec flag
C4_Witness ==
  /\ Returned(MainThread, "fcntl_int")
  /\ frame[MainThread].args[2] = F_GETFD
  /\ frame[MainThread].ret = FD_CLOEXEC

\* C5: fcntl_int_flock(descriptor, command, lock) returns what the native
\* fcntl returns for the same descriptor, command and lock-record pointer,
\* and the lock record (like the rest of the state) is as that call left it.
C5_FcntlIntFlock ==
  [][\A t \in Threads : Shim(t, "fcntl_int_flock") =>
       /\ IssuedCall(frame[t]) =
            [fn |-> "fcntl", a1 |-> Arg(t, 1), a2 |-> Arg(t, 2), va |-> <<W(Arg(t, 3))>>]
       /\ Matches(t, sys_fcntl(Arg(t, 1), Arg(t, 2), W(Arg(t, 3))))]_vars

\* F_GETLK through fcntl_int_flock has rewritten the caller's F_WRLCK record
C5_Witness ==
  /\ Returned(MainThread, "fcntl_int_flock")
  /\ frame[MainThread].args[2] = F_GETLK
  /\ frame[MainThread].args[3] = BufAddr(MainThread)
  /\ frame[MainThread].ret = 0
  /\ buf[MainThread] = F_UNLCK

\* C6: fcntl_int_long(descriptor, command, arg) returns what the native
\* fcntl returns for the same three arguments and has its effect; the word in
\* the variadic slot is arg itself, both halves.
C6_FcntlIntLong ==
  [][\A t \in Threads : Shim(t, "fcntl_int_long") =>
       /\ IssuedCall(frame[t]).va = <<Arg(t, 3)>>
       /\ IssuedCall(frame[t]).a1 = Arg(t, 1) /\ IssuedCall(frame[t]).a2 = Arg(t, 2)
       /\ Matches(t, sys_fcntl(Arg(t, 1), Arg(t, 2), Arg(t, 3)))]_vars

\* fcntl_int_long(fd, F_DUPFD, 2^32 + 1) has returned a new descriptor
C6_Witness ==
  /\ Returned(MainThread, "fcntl_int_long")
  /\ frame[MainThread].args[2] = F_DUPFD
  /\ frame[MainThread].args[3] = [hi |-> 1, lo |-> 1]
  /\ frame[MainThread].ret = 1

\* C7 as stated: for every request code, ioctl_long returns exactly what the
\* two-argument native ioctl returns in the same state, whatever that call
\* finds in the absent third slot; and ioctl_long_void returns what the
\* native ioctl returns for the same data pointer.
C7_Original ==
  [][\A t \in Threads :
       /\ Shim(t, "ioctl_long") =>
            \A w \in GarbageWords(t) : frame'[t].ret = sys_ioctl(Arg(t, 1), Arg(t, 2), w).ret
       /\ Shim(t, "ioctl_long_void") =>
            frame'[t].ret = sys_ioctl(Arg(t, 1), Arg(t, 2), W(Arg(t, 3))).ret]_vars

\* C7 (amended): ioctl_long issues ioctl(descriptor, request) with no extra
\* argument and the request unchanged; for a request without payload it
\* returns exactly what that native call returns in the same state, for a
\* request with payload its result and effect are among those the
\* two-argument native call can produce.  ioctl_long_void returns what the
\* native ioctl returns for the same descriptor, request and data pointer,
\* and the buffer is as that call left it.
C7_Ioctl ==
  [][\A t \in Threads :
       /\ Shim(t, "ioctl_long") =>
            /\ IssuedCall(frame[t]) =
                 [fn |-> "ioctl", a1 |-> Arg(t, 1), a2 |-> Arg(t, 2), va |-> <<>>]
            /\ \E w \in GarbageWords(t) : Matches(t, sys_ioctl(Arg(t, 1), Arg(t, 2), w))
            /\ (~ReadsVa(ioctl_long(Arg(t, 1), Arg(t, 2))) =>
                  \A w \in GarbageWords(t) : Matches(t, sys_ioctl(Arg(t, 1), Arg(t, 2), w)))
       /\ Shim(t, "ioctl_long_void") =>
            /\ IssuedCall(frame[t]) =
                 [fn |-> "ioctl", a1 |-> Arg(t, 1), a2 |-> Arg(t, 2), va |-> <<W(Arg(t, 3))>>]
            /\ Matches(t, sys_ioctl(Arg(t, 1), Arg(t, 2), W(Arg(t, 3))))]_vars

\* FIONREAD through ioctl_long_void has stored the size of "a" in the
\* caller's buffer
C7_Witness ==
  /\ Returned(MainThread, "ioctl_long_void")
  /\ frame[MainThread].args[2] = FIONREAD
  /\ frame[MainThread].ret = 0
  /\ buf[MainThread] = FileSize("a")

\* C8 as stated: the layer exposes six operations, each one native call.
C8_Original ==
  /\ Cardinality(Declared) = 6
  /\ \A t \in Threads : pc[t] # "idle" =>
       /\ frame[t].shim \in Declared
       /\ IssuedCall(frame[t]).fn \in {"open", "fcntl", "ioctl"}

\* C8 (amended): the layer exposes seven operations; every call in progress
\* is to one of them, and each is one native call (open, fcntl or ioctl) with
\* at most one variadic argument.
C8_SevenOperations ==
  /\ Cardinality(Declared) = 7
  /\ \A t \in Threads : pc[t] # "idle" =>
       /\ frame[t].shim \in Declared
       /\ IssuedCall(frame[t]).fn \in {"open", "fcntl", "ioctl"}
       /\ Len(IssuedCall(frame[t]).va) <= 1

\* the seventh declaration, ioctl_long_void, has been called and has returned
C8_Witness ==
  /\ Returned(MainThread, "ioctl_long_void")
  /\ frame[MainThread].args[2] = FIOCLEX
  /\ frame[MainThread].ret = 0

\* a call that leaves out an argument its native call reads
OmitsReadArg(c) == c.va = <<>> /\ ReadsVa(c)

\* the value and errno of this step of thread t are those of outcome o
SameResult(t, o) ==
  /\ frame'[t].ret = o.ret
  /\ errno'[t] = (IF o.err # 0 THEN o.err ELSE errno[t])

\* C9 as stated: the result of a shim call (its value and errno) is
\* determined by its arguments and the operating system state, and its effect
\* is its one native call's; steps that are not a shim's native call change
\* no operating system state; no step closes a descriptor.
C9_Original ==
  [][/\ \A t \in Threads : Step(t) =>
          /\ \E w \in VaWords(IssuedCall(frame[t]), t) :
               Matches(t, sys_call(IssuedCall(frame[t]), w))
          /\ \A w \in VaWords(IssuedCall(frame[t]), t) :
               SameResult(t, sys_call(IssuedCall(frame[t]), w))
     /\ ((\A t \in Threads : ~Step(t)) => UNCHANGED osvars)
     /\ \A fd \in Fds : fdt[fd].used => fdt'[fd].used]_vars

\* C9 (amended): the result and the effect of a shim call are those of its
\* one native call on the current operating system state, whatever was
\* called before.  The result is determined by the arguments and that state
\* for every open and for every fcntl and ioctl that is given each argument
\* it reads, and then so is the effect unless an open creates a file without
\* a mode; a fcntl or ioctl that reads an argument the shim left out has one
\* of the outcomes that native call can have.  Steps that are not a shim's
\* native call change no operating system state; no step closes a descriptor.
C9_Stateless ==
  [][/\ \A t \in Threads : Step(t) =>
          /\ \E w \in VaWords(IssuedCall(frame[t]), t) :
               Matches(t, sys_call(IssuedCall(frame[t]), w))
          /\ (IssuedCall(frame[t]).fn = "open" \/ ~OmitsReadArg(IssuedCall(frame[t])) =>
                \A w \in VaWords(IssuedCall(frame[t]), t) :
                  SameResult(t, sys_call(IssuedCall(frame[t]), w)))
          /\ (~OmitsReadArg(IssuedCall(frame[t])) =>
                \A w \in VaWords(IssuedCall(frame[t]), t) :
                  Matches(t, sys_call(IssuedCall(frame[t]), w)))
     /\ ((\A t \in Threads : ~Step(t)) => UNCHANGED osvars)
     /\ \A fd \in Fds : fdt[fd].used => fdt'[fd].used]_vars

\* after earlier calls have filled the descriptor table, one more shim call
\* has failed with EMFILE and every descriptor is still open
C9_Witness ==
  /\ pc[MainThread] = "returned"
  /\ frame[MainThread].shim = "fcntl_int_long"
  /\ frame[MainThread].args[2] = F_DUPFD
  /\ frame[MainThread].ret = -1 /\ errno[MainThread] = EMFILE
  /\ \A fd \in Fds : fdt[fd].used

(* Two threads call the shims concurrently, on shared descriptors. *)
NextConc ==
  \/ \E t \in Threads : Call_open_int(t, "b", O_RDONLY)
  \/ \E t \in Threads : Call_open_int_mode(t, "b", O_CREAT + O_WRONLY, S_IRUSR + S_IWUSR)
  \/ \E t \in Threads, fd \in Fds : Call_fcntl_int(t, fd, F_GETFD)
  \/ \E t \in Threads, fd \in Fds : Call_fcntl_int_flock(t, fd, F_GETLK, BufAddr(t), F_WRLCK)
  \/ \E t \in Threads, fd \in Fds : Call_fcntl_int_long(t, fd, F_SETFD, W(FD_CLOEXEC))
  \/ \E t \in Threads, fd \in Fds : Call_ioctl_long(t, fd, FIONCLEX)
  \/ \E t \in Threads, fd \in Fds : Call_ioctl_long_void(t, fd, FIONREAD, BufAddr(t))
  \/ \E t \in Threads : Native_open(t)
  \/ \E t \in Threads : Native_fcntl(t)
  \/ \E t \in Threads : Native_ioctl(t)
  \/ \E t \in Threads : Consume(t)

SpecConc == Init /\ [][NextConc]_vars

\* C10: in every interleaving, a thread's shim call takes effect as its one
\* native call on the state the interleaving has reached, returns that
\* call's value and sets that thread's errno only; the step touches no other
\* thread's frame, errno or position; a thread inside a shim can always make
\* its native call (the layer adds no lock and no wait); and a thread that
\* has returned holds the value and the errno of its own call.
C10_Concurrent ==
  /\ [][\A t \in Threads : Step(t) =>
          /\ \E w \in VaWords(IssuedCall(frame[t]), t) :
               Matches(t, sys_call(IssuedCall(frame[t]), w))
          /\ \A u \in Threads \ {t} :
               frame'[u] = frame[u] /\ errno'[u] = errno[u] /\ pc'[u] = pc[u]]_vars
  /\ [](\A t \in Threads :
          /\ pc[t] = "entered" =>
               ENABLED (Native_open(t) \/ Native_fcntl(t) \/ Native_ioctl(t))
          /\ pc[t] = "returned" =>
               frame[t].ret = frame[t].nret /\ errno[t] = frame[t].nerrno)

\* two calls have overlapped: thread 1's open_int of "b" failed with ENOENT
\* before thread 2's open_int_mode created the file, and neither result has
\* been taken yet
C10_Witness ==
  /\ pc[1] = "returned" /\ frame[1].shim = "open_int" /\ errno[1] = ENOENT
  /\ pc[2] = "returned" /\ frame[2].shim = "open_int_mode" /\ frame[2].ret >= 0

====
